---- MODULE Spec2Model ----
(***************************************************************************)
(* Model of src/src/hourly_analytics.py: the hourly page-view ranking      *)
(* pipeline (download with local cache, import, blacklist filter, split    *)
(* by domain, sort, top 25, append to the output file).                    *)
(*                                                                         *)
(* Strings that the code only compares or orders are modelled by their     *)
(* lexicographic rank: a domain or a title is a natural number, and        *)
(* t1 < t2 means that title t1 sorts before title t2.                      *)
(* A file is Absent or holds a number of chunks of the remote resource;    *)
(* its content is the corresponding prefix of the remote content.          *)
(***************************************************************************)
EXTENDS Integers, Sequences, FiniteSets

VARIABLES
    remote,            \* archive: hour window -> snapshot lines (fixed)
    blRemote,          \* blacklist_origin: sequence of (domain, title) entries (fixed)
    fancy_formatting,  \* config.fancy_formatting (fixed)
    truncated_raises,  \* whether the table reader rejects a truncated file (fixed)
    resource,          \* resource_dir: window -> Absent or chunks on disk
    blfile,            \* blacklist_path: Absent or chunks on disk
    output,            \* output_dir: window -> whether the file exists, and its lines
    pc,                \* position of the running hourly_ranking call
    dates,             \* argument of hourly_ranking
    i,                 \* position of the for loop in dates (1-based)
    table,             \* the in-memory dataframe of the current hour, or None
    groups,            \* table_groups of the current hour
    gi,                \* next group to write
    cause,             \* exception that ended the call, "" if none
    lastlog,           \* last message given to the logger
    runs,              \* number of hourly_ranking calls started
    netCalls,          \* window -> number of requests.get calls for its resource
    blNetCalls,        \* number of requests.get calls for the blacklist
    blLoads,           \* pd.read_table calls on the blacklist in the current call
    computed,          \* window -> number of times its output file was opened
    outDone,           \* windows whose output with-block was left normally
    fetch_failed,      \* windows whose last download ended in an exception
    parse_failed       \* windows whose import failed

vars == <<remote, blRemote, fancy_formatting, truncated_raises, resource, blfile,
          output, pc, dates, i, table, groups, gi, cause, lastlog, runs,
          netCalls, blNetCalls, blLoads, computed, outDone, fetch_failed,
          parse_failed>>

env == <<remote, blRemote, fancy_formatting, truncated_raises>>

----------------------------------------------------------------------------
(* Bounds *)
NumHours == 2      \* distinct hours a caller may ask for
MaxDates == 2      \* length of the dates list of one call
MaxRuns == 2       \* hourly_ranking calls (processes) in one behaviour
ChunkRecords == 2  \* lines carried by one streamed chunk
MaxLen == 3        \* lines of an enumerated snapshot
MaxBl == 2         \* entries of an enumerated blacklist
MaxBig == 27       \* lines of a generated large snapshot

(* Program constants *)
TopK == 25
local_timezone == 1

Absent == -1

\* the value of a name bound to no dataframe
None == <<[idx |-> -1, domain |-> -1, title |-> -1, count |-> -1]>>

\* a path of output_dir at which nothing exists
NoFile == [exists |-> FALSE, lines |-> <<>>]

Min(a, b) == IF a < b THEN a ELSE b

Hours == 1 .. NumHours

floor_date(date) == date - local_timezone

Windows == {floor_date(d) : d \in Hours}

----------------------------------------------------------------------------
(* Files and the table reader *)

isfile(f) == f /= Absent

NumChunks(content) == (Len(content) + ChunkRecords - 1) \div ChunkRecords

OnDisk(content, chunks) ==
    SubSeq(content, 1, Min(Len(content), chunks * ChunkRecords))

Truncated(content, chunks) == chunks < NumChunks(content)

need_download_always(f) == TRUE

\* download_file: "if not os.path.isfile(file_path)"
need_download(f) == ~isfile(f)

\* pd.read_table(..., names=[domain, title, count, response_time], usecols=...)
\* inside try/except: the dataframe, indexed by line number, or None
get_table_from_resource(content, chunks) ==
    LET lines == OnDisk(content, chunks) IN
    IF (\E k \in 1 .. Len(lines) : ~lines[k].ok)
       \/ (Truncated(content, chunks) /\ truncated_raises)
    THEN None
    ELSE [k \in 1 .. Len(lines) |->
            [idx |-> k - 1, domain |-> lines[k].domain,
             title |-> lines[k].title, count |-> lines[k].count]]

\* pd.read_table(blacklist_path, ...): raises on a file it cannot read
blacklist_raises(chunks) == Truncated(blRemote, chunks) /\ truncated_raises

read_blacklist(chunks) == OnDisk(blRemote, chunks)

----------------------------------------------------------------------------
(* Blacklist filter, split, sort, top 25 *)

\* table[["domain","title"]].isin(blacklist.to_dict(outtype='list')).all(axis=1):
\* isin with a dict tests each column against that column's list of values
blacklist_mask(r, bl) ==
    /\ \E k \in 1 .. Len(bl) : bl[k].domain = r.domain
    /\ \E k \in 1 .. Len(bl) : bl[k].title = r.title

Keep(bl, r) == ~blacklist_mask(r, bl)

\* table[~blacklist_mask]
blacklist(t, bl) == SelectSeq(t, LAMBDA r : Keep(bl, r))

subscript_raises_never(t) == FALSE

\* table[["domain", "title"]] with table = None raises TypeError
subscript_raises(t) == t = None

DomainsOf(t) == {t[k].domain : k \in 1 .. Len(t)}

RECURSIVE SortedDomains(_)
SortedDomains(S) ==
    IF S = {} THEN <<>>
    ELSE LET m == CHOOSE x \in S : \A y \in S : x <= y
         IN <<m>> \o SortedDomains(S \ {m})

\* dataframe.groupby(["domain"]): one group per domain, in key order
split_by_domain(t) ==
    LET ds == SortedDomains(IF t = None THEN {} ELSE DomainsOf(t)) IN
    [k \in 1 .. Len(ds) |-> SelectSeq(t, LAMBDA r : r.domain = ds[k])]

TieOrders == {"index_asc", "index_desc"}

sort_precedes_ascending(a, b, tie) ==
    \/ a.count < b.count
    \/ a.count = b.count /\ (IF tie = "index_asc" THEN a.idx < b.idx ELSE a.idx > b.idx)

\* group.sort(("count"), ascending=False): rows of equal count come in an
\* order the sort does not fix (tie)
sort_precedes(a, b, tie) ==
    \/ a.count > b.count
    \/ a.count = b.count /\ (IF tie = "index_asc" THEN a.idx < b.idx ELSE a.idx > b.idx)

sort(g, tie) ==
    LET rank(k) == Cardinality({j \in 1 .. Len(g) : sort_precedes(g[j], g[k], tie)})
    IN [p \in 1 .. Len(g) |-> g[CHOOSE k \in 1 .. Len(g) : rank(k) = p - 1]]

head_off_by_one(g) == SubSeq(g, 1, Min(TopK + 1, Len(g)))

\* group[:25]
head(g) == SubSeq(g, 1, Min(TopK, Len(g)))

Line(kind, r) ==
    [kind |-> kind, idx |-> r.idx, domain |-> r.domain, title |-> r.title,
     count |-> r.count]

NoRec == [idx |-> 0, domain |-> 0, title |-> 0, count |-> 0]

\* what one iteration of "for name, group in table_groups" appends
group_lines(g, tie) ==
    LET rows == head(sort(g, tie))
        body == [k \in 1 .. Len(rows) |-> Line("row", rows[k])]
        name == [NoRec EXCEPT !.domain = g[1].domain]
    IN IF fancy_formatting
       THEN <<Line("domain", name), Line("columns", NoRec)>> \o body
            \o <<Line("footer", NoRec)>>
       ELSE body

----------------------------------------------------------------------------
(* Inputs *)

Ln(d, t, c, ok) == [domain |-> d, title |-> t, count |-> c, ok |-> ok]

Entry(d, t) == [domain |-> d, title |-> t]

\* domains: 1 = en, 2 = fr; titles: 1 = Ant, 2 = Cat, 3 = Chat, 4 = Dog
ExampleSnapshot ==
    <<Ln(1, 2, 50, TRUE), Ln(1, 4, 40, TRUE), Ln(1, 1, 10, TRUE), Ln(2, 3, 5, TRUE)>>

MalformedSnapshot == [ExampleSnapshot EXCEPT ![3].ok = FALSE]

PipeSnapshots == {ExampleSnapshot, MalformedSnapshot}

PipeBlacklists == {<<Entry(1, 1), Entry(2, 2)>>}

DateLists == UNION {[1 .. n -> Hours] : n \in 1 .. MaxDates}

----------------------------------------------------------------------------
(* hourly_ranking *)

w == floor_date(dates[i])

ranking_present_never(f) == FALSE

\* "if os.path.isfile(output_path)"
ranking_present(f) == f.exists

Init ==
    /\ remote \in [Windows -> PipeSnapshots]
    /\ blRemote \in PipeBlacklists
    /\ fancy_formatting \in BOOLEAN
    /\ truncated_raises \in BOOLEAN
    /\ resource = [h \in Windows |-> Absent]
    /\ blfile = Absent
    /\ output = [h \in Windows |-> NoFile]
    /\ pc = "idle"
    /\ dates = <<>>
    /\ i = 1
    /\ table = <<>>
    /\ groups = <<>>
    /\ gi = 1
    /\ cause = ""
    /\ lastlog = ""
    /\ runs = 0
    /\ netCalls = [h \in Windows |-> 0]
    /\ blNetCalls = 0
    /\ blLoads = 0
    /\ computed = [h \in Windows |-> 0]
    /\ outDone = {}
    /\ fetch_failed = {}
    /\ parse_failed = {}

\* a call of hourly_ranking(dates) in a new process
Start ==
    /\ pc \in {"idle", "done", "aborted"}
    /\ runs < MaxRuns
    /\ \E ds \in DateLists : dates' = ds
    /\ i' = 1
    /\ pc' = "loop"
    /\ table' = <<>>
    /\ groups' = <<>>
    /\ gi' = 1
    /\ cause' = ""
    /\ lastlog' = ""
    /\ blLoads' = 0
    /\ runs' = runs + 1
    /\ UNCHANGED <<env, resource, blfile, output, netCalls, blNetCalls, computed,
                   outDone, fetch_failed, parse_failed>>

\* an exception leaves hourly_ranking: the call, and the process, end
Raise(c) ==
    /\ pc' = "aborted"
    /\ cause' = c
    /\ table' = <<>>
    /\ groups' = <<>>
    /\ gi' = 1

\* the head of "for date in dates" and the test of the output file
loop ==
    /\ pc = "loop"
    /\ IF i > Len(dates)
       THEN /\ pc' = "done"
            /\ UNCHANGED <<i, lastlog>>
       ELSE IF ranking_present(output[w])
       THEN /\ lastlog' = "ranking already present"
            /\ i' = i + 1
            /\ pc' = "loop"
       ELSE /\ lastlog' = "computing"
            /\ pc' = "get_resource"
            /\ i' = i
    /\ UNCHANGED <<env, resource, blfile, output, dates, table, groups, gi, cause,
                   runs, netCalls, blNetCalls, blLoads, computed, outDone,
                   fetch_failed, parse_failed>>

\* get_resource -> download_file: the test, and open(file_path, "wb")
get_resource ==
    /\ pc = "get_resource"
    /\ IF need_download(resource[w])
       THEN /\ resource' = [resource EXCEPT ![w] = 0]
            /\ lastlog' = "downloading"
            /\ pc' = "request"
       ELSE /\ lastlog' = "already present"
            /\ pc' = "parse"
            /\ UNCHANGED resource
    /\ UNCHANGED <<env, blfile, output, dates, i, table, groups, gi, cause, runs,
                   netCalls, blNetCalls, blLoads, computed, outDone, fetch_failed,
                   parse_failed>>

\* requests.get(url, stream=True) answers
request ==
    /\ pc = "request"
    /\ netCalls' = [netCalls EXCEPT ![w] = @ + 1]
    /\ IF NumChunks(remote[w]) = 0
       THEN pc' = "parse" /\ fetch_failed' = fetch_failed \ {w}
       ELSE pc' = "stream" /\ UNCHANGED fetch_failed
    /\ UNCHANGED <<env, resource, blfile, output, dates, i, table, groups, gi, cause,
                   lastlog, runs, blNetCalls, blLoads, computed, outDone, parse_failed>>

\* one turn of "for chunk in resource_data.iter_content(2048): fd.write(chunk)"
stream ==
    /\ pc = "stream"
    /\ resource' = [resource EXCEPT ![w] = @ + 1]
    /\ IF resource[w] + 1 >= NumChunks(remote[w])
       THEN pc' = "parse" /\ fetch_failed' = fetch_failed \ {w}
       ELSE pc' = "stream" /\ UNCHANGED fetch_failed
    /\ UNCHANGED <<env, blfile, output, dates, i, table, groups, gi, cause, lastlog,
                   runs, netCalls, blNetCalls, blLoads, computed, outDone,
                   parse_failed>>

\* requests.get or iter_content raises: nothing catches it
download_fails ==
    /\ pc \in {"request", "stream"}
    /\ netCalls' = [netCalls EXCEPT ![w] = IF pc = "request" THEN @ + 1 ELSE @]
    /\ fetch_failed' = fetch_failed \cup {w}
    /\ Raise("DownloadError")
    /\ UNCHANGED <<env, resource, blfile, output, dates, i, lastlog, runs,
                   blNetCalls, blLoads, computed, outDone, parse_failed>>

\* table = get_table_from_resource(...)
parse ==
    /\ pc = "parse"
    /\ table' = get_table_from_resource(remote[w], resource[w])
    /\ IF table' = None
       THEN lastlog' = "import error" /\ parse_failed' = parse_failed \cup {w}
       ELSE lastlog' = "importing" /\ UNCHANGED parse_failed
    /\ pc' = "blacklist"
    /\ UNCHANGED <<env, resource, blfile, output, dates, i, groups, gi, cause, runs,
                   netCalls, blNetCalls, blLoads, computed, outDone, fetch_failed>>

\* blacklist(table) -> download_file(blacklist_origin, blacklist_path)
blacklist_download ==
    /\ pc = "blacklist"
    /\ IF need_download(blfile)
       THEN /\ blfile' = 0
            /\ lastlog' = "downloading"
            /\ pc' = "bl_request"
       ELSE /\ lastlog' = "already present"
            /\ pc' = "bl_read"
            /\ UNCHANGED blfile
    /\ UNCHANGED <<env, resource, output, dates, i, table, groups, gi, cause, runs,
                   netCalls, blNetCalls, blLoads, computed, outDone, fetch_failed,
                   parse_failed>>

\* requests.get answers, then the chunks of the blacklist are written
blacklist_request ==
    /\ pc = "bl_request"
    /\ blNetCalls' = blNetCalls + 1
    /\ pc' = IF NumChunks(blRemote) = 0 THEN "bl_read" ELSE "bl_stream"
    /\ UNCHANGED <<env, resource, blfile, output, dates, i, table, groups, gi, cause,
                   lastlog, runs, netCalls, blLoads, computed, outDone, fetch_failed,
                   parse_failed>>

blacklist_stream ==
    /\ pc = "bl_stream"
    /\ blfile' = blfile + 1
    /\ pc' = IF blfile + 1 >= NumChunks(blRemote) THEN "bl_read" ELSE "bl_stream"
    /\ UNCHANGED <<env, resource, output, dates, i, table, groups, gi, cause, lastlog,
                   runs, netCalls, blNetCalls, blLoads, computed, outDone,
                   fetch_failed, parse_failed>>

blacklist_download_fails ==
    /\ pc \in {"bl_request", "bl_stream"}
    /\ blNetCalls' = IF pc = "bl_request" THEN blNetCalls + 1 ELSE blNetCalls
    /\ Raise("DownloadError")
    /\ UNCHANGED <<env, resource, blfile, output, dates, i, lastlog, runs, netCalls,
                   blLoads, computed, outDone, fetch_failed, parse_failed>>

\* blacklist(table), after the download: read the file, build the mask, filter
blacklist_filter ==
    /\ pc = "bl_read"
    /\ blLoads' = blLoads + 1
    /\ IF blacklist_raises(blfile)
       THEN Raise("BlacklistError")
       ELSE IF subscript_raises(table)
       THEN Raise("TypeError")
       ELSE /\ table' = blacklist(table, read_blacklist(blfile))
            /\ pc' = "open_output"
            /\ UNCHANGED <<groups, gi, cause>>
    /\ UNCHANGED <<env, resource, blfile, output, dates, i, lastlog, runs, netCalls,
                   blNetCalls, computed, outDone, fetch_failed, parse_failed>>

HeaderLine == Line("header", NoRec)

\* split_by_domain, del(table), open(output_path, 'a') and the plain header
open_output ==
    /\ pc = "open_output"
    /\ groups' = split_by_domain(table)
    /\ table' = <<>>
    /\ output' = [output EXCEPT ![w] =
                    [exists |-> TRUE,
                     lines |-> @.lines \o
                               (IF fancy_formatting THEN <<>> ELSE <<HeaderLine>>)]]
    /\ computed' = [computed EXCEPT ![w] = @ + 1]
    /\ gi' = 1
    /\ pc' = "write"
    /\ UNCHANGED <<env, resource, blfile, dates, i, cause, lastlog, runs, netCalls,
                   blNetCalls, blLoads, outDone, fetch_failed, parse_failed>>

\* one iteration of "for name, group in table_groups"
write_group ==
    /\ pc = "write"
    /\ gi <= Len(groups)
    /\ \E tie \in TieOrders :
         output' = [output EXCEPT ![w].lines = @ \o group_lines(groups[gi], tie)]
    /\ gi' = gi + 1
    /\ UNCHANGED <<env, resource, blfile, pc, dates, i, table, groups, cause, lastlog,
                   runs, netCalls, blNetCalls, blLoads, computed, outDone,
                   fetch_failed, parse_failed>>

\* the with-block of the output file is left; the for loop goes on
close_output ==
    /\ pc = "write"
    /\ gi > Len(groups)
    /\ outDone' = outDone \cup {w}
    /\ i' = i + 1
    /\ pc' = "loop"
    /\ groups' = <<>>
    /\ gi' = 1
    /\ UNCHANGED <<env, resource, blfile, output, dates, table, cause, lastlog, runs,
                   netCalls, blNetCalls, blLoads, computed, fetch_failed,
                   parse_failed>>

\* a write to the output file raises (IOError): nothing catches it
write_fails ==
    /\ pc = "write"
    /\ Raise("WriteError")
    /\ UNCHANGED <<env, resource, blfile, output, dates, i, lastlog, runs, netCalls,
                   blNetCalls, blLoads, computed, outDone, fetch_failed,
                   parse_failed>>

Next ==
    \/ Start
    \/ loop
    \/ get_resource
    \/ request
    \/ stream
    \/ download_fails
    \/ parse
    \/ blacklist_download
    \/ blacklist_request
    \/ blacklist_stream
    \/ blacklist_download_fails
    \/ blacklist_filter
    \/ open_output
    \/ write_group
    \/ close_output
    \/ write_fails

Spec == Init /\ [][Next]_vars

----------------------------------------------------------------------------
(* The filter and the ranking on enumerated inputs: the state of a call    *)
(* for one hour right after the import and the download of the blacklist.  *)

SmallLines == {Ln(d, t, c, TRUE) : d \in 1 .. 2, t \in 1 .. 2, c \in 1 .. 2}

SmallSnapshots == UNION {[1 .. n -> SmallLines] : n \in 0 .. MaxLen}

\* large snapshots: line k has title k, count (k * a) % m; line j is of domain 2
BigSnapshots ==
    {[k \in 1 .. n |-> Ln(IF k = j THEN 2 ELSE 1, k, (k * a) % m, TRUE)] :
        n \in (TopK + 1) .. MaxBig, a \in {1, 7}, m \in {3, 30}, j \in {0, 5}}

PairSeq == <<Entry(1, 1), Entry(1, 2), Entry(2, 1), Entry(2, 2)>>

IncSeqs ==
    {s \in UNION {[1 .. n -> 1 .. Len(PairSeq)] : n \in 0 .. MaxBl} :
        \A a, b \in 1 .. Len(s) : a < b => s[a] < s[b]}

RankBlacklists == {[k \in 1 .. Len(s) |-> PairSeq[s[k]]] : s \in IncSeqs}

RankInit ==
    /\ \E snap \in SmallSnapshots \cup BigSnapshots :
         /\ remote = [h \in Windows |-> snap]
         /\ resource = [h \in Windows |->
                          IF h = floor_date(1) THEN NumChunks(snap) ELSE Absent]
         /\ table = get_table_from_resource(snap, NumChunks(snap))
    /\ blRemote \in RankBlacklists
    /\ blfile = NumChunks(blRemote)
    /\ fancy_formatting \in BOOLEAN
    /\ truncated_raises = FALSE
    /\ output = [h \in Windows |-> NoFile]
    /\ pc = "bl_read"
    /\ dates = <<1>>
    /\ i = 1
    /\ groups = <<>>
    /\ gi = 1
    /\ cause = ""
    /\ lastlog = "downloading"
    /\ runs = 1
    /\ netCalls = [h \in Windows |-> IF h = floor_date(1) THEN 1 ELSE 0]
    /\ blNetCalls = 1
    /\ blLoads = 0
    /\ computed = [h \in Windows |-> 0]
    /\ outDone = {}
    /\ fetch_failed = {}
    /\ parse_failed = {}

RankNext ==
    \/ blacklist_filter
    \/ open_output
    \/ write_group
    \/ close_output

RankSpec == RankInit /\ [][RankNext]_vars

----------------------------------------------------------------------------
(* Properties *)

IsRow(l) == l.kind = "row"

RowsOf(h, d) == SelectSeq(output[h].lines, LAMBDA l : IsRow(l) /\ l.domain = d)

AtGate == pc = "loop" /\ i <= Len(dates)

\* C1: a call for a window whose output file exists is skipped and changes no
\* file and makes no request; the output file of a window is opened for
\* writing at most once, so the work of a window is done at most once.
C1_Idempotent ==
    /\ [](\A h \in Windows : computed[h] <= 1)
    /\ [][(AtGate /\ output[w].exists) =>
            /\ UNCHANGED <<resource, blfile, output, netCalls, blNetCalls, computed>>
            /\ pc' = "loop"
            /\ i' = i + 1]_vars

\* C1 witness: one call asked twice for the same hour; the first turn wrote
\* the ranking and the second was skipped.
C1_Witness ==
    /\ Len(dates) = 2
    /\ dates[1] = dates[2]
    /\ runs = 1
    /\ pc = "loop"
    /\ i = 3
    /\ lastlog = "ranking already present"
    /\ computed[floor_date(dates[1])] = 1
    /\ floor_date(dates[1]) \in outDone

\* C2: after the filter, a record of the imported table is gone iff its
\* (domain, title) pair is the pair of one single blacklist entry.
C2_BlacklistExact ==
    pc = "open_output" =>
        LET t0 == get_table_from_resource(remote[w], resource[w])
            bl == read_blacklist(blfile)
        IN \A k \in 1 .. Len(t0) :
             (\E j \in 1 .. Len(table) : table[j] = t0[k])
             <=> ~(\E e \in 1 .. Len(bl) :
                     bl[e].domain = t0[k].domain /\ bl[e].title = t0[k].title)

\* C3 as stated: in the rows written for a domain, a higher count comes first
\* and, among equal counts, the smaller title comes first.
C3_TitleTieBreak ==
    \A h \in Windows : \A p, q \in 1 .. Len(output[h].lines) :
        LET a == output[h].lines[p]
            b == output[h].lines[q]
        IN (p < q /\ IsRow(a) /\ IsRow(b) /\ a.domain = b.domain) =>
              /\ a.count >= b.count
              /\ a.count = b.count => a.title <= b.title

\* C3 as amended: in the rows written for a domain, a record of higher count
\* precedes every record of lower count (the order among equal counts is not
\* fixed).
C3_CountDescending ==
    \A h \in Windows : \A p, q \in 1 .. Len(output[h].lines) :
        LET a == output[h].lines[p]
            b == output[h].lines[q]
        IN (p < q /\ IsRow(a) /\ IsRow(b) /\ a.domain = b.domain) =>
              a.count >= b.count

\* C3 witness: two rows of one domain were written in the order opposite to
\* their order in the snapshot, the higher count first.
C3_Witness ==
    \E h \in Windows : \E p, q \in 1 .. Len(output[h].lines) :
        LET a == output[h].lines[p]
            b == output[h].lines[q]
        IN /\ p < q /\ IsRow(a) /\ IsRow(b) /\ a.domain = b.domain
           /\ a.count > b.count
           /\ a.idx > b.idx

\* C4: every domain has at most 25 rows in an output file, and the rows
\* written for a group are min(25, size) records of the group, none of them
\* of lower count than a record of the group left out.
C4_TopK ==
    /\ \A h \in Windows : \A p \in 1 .. Len(output[h].lines) :
         Len(RowsOf(h, output[h].lines[p].domain)) <= TopK
    /\ pc = "write" =>
         \A k \in 1 .. gi - 1 :
            LET g == groups[k]
                rows == RowsOf(w, g[1].domain)
                In(x) == \E p \in 1 .. Len(rows) : rows[p].idx = x.idx
            IN /\ Len(rows) = Min(TopK, Len(g))
               /\ \A p \in 1 .. Len(rows) : \E x \in 1 .. Len(g) :
                     /\ g[x].idx = rows[p].idx
                     /\ g[x].title = rows[p].title
                     /\ g[x].count = rows[p].count
               /\ \A p, q \in 1 .. Len(rows) : p /= q => rows[p].idx /= rows[q].idx
               /\ \A x \in 1 .. Len(g) : ~In(g[x]) =>
                     \A p \in 1 .. Len(rows) : g[x].count <= rows[p].count

\* C4 witness: a group of more than 25 surviving records has been written,
\* as 25 rows.
C4_Witness ==
    /\ pc = "write"
    /\ gi > 1
    /\ Len(groups[1]) > TopK
    /\ Len(RowsOf(w, groups[1][1].domain)) = TopK

\* C5: download_file called for a resource file that exists makes no request
\* and leaves the files as they are.
C5_CacheHit ==
    [][(pc = "get_resource" /\ isfile(resource[w])) =>
          /\ resource' = resource
          /\ netCalls' = netCalls
          /\ blfile' = blfile
          /\ pc' = "parse"]_vars

\* C5 witness: the fetch of a later call found the file of an earlier call.
C5_Witness ==
    /\ pc = "parse"
    /\ runs = 2
    /\ lastlog = "already present"
    /\ netCalls[w] = 1

\* C6: a call ended by a download or an import failure has no hour of its
\* list left unprocessed.
C6_BatchContinues ==
    (pc = "aborted" /\ cause \in {"DownloadError", "TypeError", "BlacklistError"})
        => i >= Len(dates)

\* C7: when no write is in progress, an output file that exists holds the
\* complete ranking of its window.
C7_OutputAtomic ==
    pc /= "write" => \A h \in Windows : output[h].exists => h \in outDone

\* C8: a fetch never reports a cache hit for a window whose last download
\* failed before the end of the stream.
C8_FailedFetchNotCached ==
    ~(pc = "parse" /\ lastlog = "already present" /\ w \in fetch_failed)

\* C9 as stated: within one call the blacklist is read and parsed at most once.
C9_LoadedOnce == blLoads <= 1

\* C9 as amended: the blacklist is requested from its origin at most once,
\* and it is read and parsed at most once for each hour the call has begun.
C9_FetchedOnce == blNetCalls <= 1 /\ blLoads <= i

\* C9 witness: the second hour of a call has read the blacklist again, from
\* the file the first hour downloaded.
C9_Witness == blLoads = 2 /\ blNetCalls = 1 /\ i = 2 /\ pc = "open_output"

\* C10: a window whose import failed has no output file.
C10_ParseFailureNoOutput ==
    \A h \in Windows : h \in parse_failed => ~output[h].exists

\* C10 witness: the import of the current hour failed and the call has ended
\* on the TypeError that follows.
C10_Witness ==
    /\ pc = "aborted"
    /\ cause = "TypeError"
    /\ w \in parse_failed
    /\ lastlog /= "import error"

====
